---- MODULE Spec2Model ----
(***************************************************************************)
(* A model of pgdatadiff (src/pgdatadiff/pgdatadiff.py): the retry         *)
(* wrapper, the chunked table diff, the sequence diff, the two             *)
(* orchestration loops and the progress reporter.                          *)
(*                                                                         *)
(* Python values are modelled as follows.  True / False / None, the        *)
(* tri-state result of a differ, are the strings "True", "False", "None".  *)
(* SQL NULL and the Python None that the driver returns for it are NULL.   *)
(* An exception is the name of its class; "none" is no exception.          *)
(* md5 is modelled as injective: the hash of a page is the sequence of    *)
(* its rows, and the hash of no rows is NULL (array_agg of nothing).       *)
(***************************************************************************)
EXTENDS Integers, Sequences, FiniteSets, TLC

\* ------------------------------------------------------------- bounds
\* The key values of a single-column primary key are 1..MaxKey.
MaxKey == 3
\* chunk_size ranges over 1..MaxChunk.
MaxChunk == 2
\* At most MaxEntities tables (or sequences) are listed from the catalog.
MaxEntities == 2
\* position is an unbounded Python int that is only tested with > 0 and
\* printed: values from MaxPosition on are identified (it saturates).
MaxPosition == 4
\* A query fails transiently on its first n invocations, n in 0..MaxFaults;
\* n = MaxFaults stands for a query that fails on every invocation.
MaxFaults == 2
\* Sequence values are 1..MaxSeqVal.
MaxSeqVal == 2

\* ------------------------------------------------------------- values
NULL == 0

Min(x, y) == IF x <= y THEN x ELSE y

Range(s) == {s[i] : i \in 1..Len(s)}

\* Entity names are strings; a string is modelled as the sequence of its
\* character codes so that sorted() can compare them.
Names == {<<1>>, <<1, 2>>, <<2>>}

\* Python's str.__lt__: lexicographic, a proper prefix is smaller.
RECURSIVE StrLess(_, _)
StrLess(s, t) ==
    IF t = <<>> THEN FALSE
    ELSE IF s = <<>> THEN TRUE
    ELSE IF Head(s) # Head(t) THEN Head(s) < Head(t)
    ELSE StrLess(Tail(s), Tail(t))

\* Insert x into the sorted list s, after the elements that are not greater.
RECURSIVE Insert(_, _)
Insert(x, s) ==
    IF s = <<>> THEN <<x>>
    ELSE IF StrLess(x, Head(s)) THEN <<x>> \o s
    ELSE <<Head(s)>> \o Insert(x, Tail(s))

\* Python's sorted() on a list of strings.
RECURSIVE sorted(_)
sorted(s) ==
    IF s = <<>> THEN <<>> ELSE Insert(s[Len(s)], sorted(SubSeq(s, 1, Len(s) - 1)))

\* list.index(x): the first position holding x (0-based in Python; the
\* callers add 1, so this is the 1-based position).
IndexPlus1(s, x) == CHOOSE i \in 1..Len(s) : s[i] = x /\ \A j \in 1..(i - 1) : s[j] # x

\* The listings a catalog query can return: every ordering of every set of
\* at most MaxEntities names.
Listings ==
    {s \in UNION {[1..n -> Names] : n \in 0..MaxEntities} :
        \A i, j \in 1..Len(s) : i # j => s[i] # s[j]}

\* ------------------------------------------------------------- retry
max_tries == 3
base_timeout == 1

\* The names bound at module level: the imports of lines 1-12 and the
\* definitions of the module.
ModuleNames ==
    {"sys", "warnings", "time", "bold", "green", "red", "Halo", "sa_exc",
     "create_engine", "NoSuchTableError", "ProgrammingError",
     "OperationalError", "inspect", "sessionmaker", "MetaData", "Table",
     "make_session", "DBDiff", "StatusUpdate", "retry"}

\* The classes an exception of class ex is an instance of.
Bases(ex) ==
    IF ex \in {"OperationalError", "ProgrammingError"}
    THEN {ex, "DatabaseError", "Exception"}
    ELSE {ex, "Exception"}

IsInstance(ex, cls) == cls \in Bases(ex)

RECURSIVE Pow2(_)
Pow2(i) == IF i = 0 THEN 1 ELSE 2 * Pow2(i - 1)

\* A query operation: it raises OperationalError on its first fn.faults
\* invocations (on all of them when fn.faults = MaxFaults), and otherwise
\* does what the database makes it do: fn.natural is "none" (it returns)
\* or the exception the statement raises.
Faults == 0..MaxFaults
Invoke(fn, k) ==
    IF fn.faults = MaxFaults \/ k <= fn.faults THEN "OperationalError" ELSE fn.natural

\* The except clause of retry for exception ex in round i: "raise:<class>"
\* or "sleep".  Evaluating the name DatabaseError raises NameError when the
\* module binds no such name.
RetryHandler(ex, i) ==
    IF "DatabaseError" \notin ModuleNames THEN "NameError"
    ELSE IF ~IsInstance(ex, "DatabaseError") /\ ~IsInstance(ex, "OperationalError") THEN ex
    ELSE IF i < max_tries THEN "sleep"
    ELSE ex

\* retry(fn): the outcome of the while True loop from round i on, after
\* `calls` invocations and the sleeps of `sleeps`.
RECURSIVE retry_loop(_, _, _, _)
retry_loop(fn, i, calls, sleeps) ==
    LET ex == Invoke(fn, calls + 1) IN
    IF ex = "none"
    THEN [raised |-> "none", calls |-> calls + 1, sleeps |-> sleeps, fn |-> fn]
    ELSE LET h == RetryHandler(ex, i) IN
         IF h = "sleep"
         THEN retry_loop(fn, i + 1, calls + 1, Append(sleeps, Pow2(i) * base_timeout))
         ELSE [raised |-> h, calls |-> calls + 1, sleeps |-> sleeps, fn |-> fn]

retry(fn) == retry_loop(fn, 0, 0, <<>>)

NoRetry == [raised |-> "none", calls |-> 0, sleeps |-> <<>>,
            fn |-> [faults |-> 0, natural |-> "none"]]

\* ------------------------------------------------------------- databases
\* A row of a table: the key columns a and b and a payload column v.
Row(a, b, v) == [a |-> a, b |-> b, v |-> v]

\* The primary keys a table may declare (constrained_columns).
PkChoices == {<<>>, <<"a">>, <<"a", "b">>}

\* The values of the columns of a two-column primary key.
PairVals == {1, 2}

\* The rows a table with primary key pks may hold on the first database:
\* rows are unique in the key columns.
KeyRows(pks) ==
    IF Len(pks) = 2 THEN {Row(a, b, 0) : a \in PairVals, b \in PairVals}
    ELSE {Row(a, 1, 0) : a \in 1..MaxKey}

\* The second database's copy of a table whose first copy holds `rows`: the
\* same rows, one row changed, one row missing, one row more, or no table.
Copies(rows, pks) ==
    {[exists |-> TRUE, rows |-> rows]}
    \cup {[exists |-> FALSE, rows |-> {}]}
    \cup {[exists |-> TRUE, rows |-> (rows \ {r}) \cup {Row(r.a, r.b, 1)}] : r \in rows}
    \cup {[exists |-> TRUE, rows |-> rows \ {r}] : r \in rows}
    \cup {[exists |-> TRUE, rows |-> rows \cup {r}] : r \in KeyRows(pks) \ rows}

\* The tables the orchestrator may meet: listed from the first database,
\* so the table exists there.
TablesWith(pks) ==
    UNION {{[pks |-> pks, first |-> [exists |-> TRUE, rows |-> rows], second |-> c] :
                c \in Copies(rows, pks)} : rows \in SUBSET KeyRows(pks)}

TableInputs == UNION {TablesWith(pks) : pks \in PkChoices}

NoTable == [pks |-> <<>>, first |-> [exists |-> TRUE, rows |-> {}],
            second |-> [exists |-> TRUE, rows |-> {}]]

\* A sequence listed from the first database: its last_value there, and on
\* the second database its last_value or NULL when it does not exist.
SeqInputs == [first : 1..MaxSeqVal, second : {NULL} \cup 1..MaxSeqVal]

NoSeq == [first |-> 1, second |-> 1]

\* ------------------------------------------------------------- the page query
\* SQL's three-valued logic: "T", "F" and "U" (unknown, NULL).
SqlBool(p) == IF p THEN "T" ELSE "F"
SqlNot(p) == IF p = "U" THEN "U" ELSE IF p = "T" THEN "F" ELSE "T"
SqlOr(p, q) == IF p = "T" \/ q = "T" THEN "T" ELSE IF p = "U" \/ q = "U" THEN "U" ELSE "F"
SqlAnd(ps) == IF "F" \in ps THEN "F" ELSE IF "U" \in ps THEN "U" ELSE "T"
\* SqlGe with `>` for `>=`.
SqlGt(x, y) == IF x = NULL \/ y = NULL THEN "U" ELSE SqlBool(x > y)
SqlGe(x, y) == IF x = NULL \/ y = NULL THEN "U" ELSE SqlBool(x >= y)

\* ' AND '.join('{pk} >= :{pk}' for pk in pks), evaluated on row r.
offset_expr(r, pks, params) ==
    SqlAnd({SqlGe(r[pks[i]], params[pks[i]]) : i \in 1..Len(pks)})

\* WHERE NOT :has_offset OR ({offset_expr}): the rows the predicate keeps.
Where(rows, pks, params) ==
    {r \in rows :
        SqlOr(SqlNot(SqlBool(params["has_offset"])), offset_expr(r, pks, params)) = "T"}

\* ORDER BY pk1, pk2, ...: r sorts before s.
RECURSIVE order_expr(_, _, _)
order_expr(r, s, pks) ==
    IF pks = <<>> THEN FALSE
    ELSE IF r[Head(pks)] # s[Head(pks)] THEN r[Head(pks)] < s[Head(pks)]
    ELSE order_expr(r, s, Tail(pks))

RECURSIVE OrderBy(_, _)
OrderBy(rows, pks) ==
    IF rows = {} THEN <<>>
    ELSE LET r == CHOOSE x \in rows : \A y \in rows \ {x} : order_expr(x, y, pks)
         IN <<r>> \o OrderBy(rows \ {r}, pks)

Limit(s, n) == SubSeq(s, 1, Min(n, Len(s)))

\* md5, taken to be injective.
Md5(x) == <<"md5", x>>
NullHash == <<>>

\* last(pk) over the rows of t: the STRICT state function keeps the last
\* non-null input, NULL when there is no row.
Last(t, pk) == IF t = <<>> THEN NULL ELSE t[Len(t)][pk]

\* The statement SQL_TEMPLATE_HASH run on a table holding `rows`: one
\* result row (an aggregate without GROUP BY), so rowcount is 1.
SQL_TEMPLATE_HASH(rows, pks, chunk_size_, params) ==
    LET t == Limit(OrderBy(Where(rows, pks, params), pks), chunk_size_) IN
    [rowcount |-> 1,
     hash |-> IF t = <<>> THEN NullHash ELSE Md5([i \in 1..Len(t) |-> Md5(t[i])]),
     pks |-> [i \in 1..Len(pks) |-> Last(t, pks[i])],
     t |-> t]

NoResult == [rowcount |-> 0, hash |-> NullHash, pks |-> <<>>, t |-> <<>>]

\* What a statement on a table does by itself: it returns, or the table is
\* undefined and it raises ProgrammingError.
Natural(side) == IF side.exists THEN "none" ELSE "ProgrammingError"

\* ------------------------------------------------------------- the differs
\* The count queries of the count-only path are not run through retry: cf
\* names the one that fails transiently, if any: the first count, the second
\* count, or the second count repeated for the message.
CountFaults == {"none", "first", "second", "message"}

\* diff_table_data_head without `if not pks: return None, ...`: a table
\* without primary key goes on to the paging loop.
diff_table_data_head_NoPkCheck(t, count_only_, cf) ==
    LET n1 == Cardinality(t.first.rows)
        n2 == Cardinality(t.second.rows)
        returns(r, m) == [raised |-> "none", result |-> r, message |-> m]
        raises(e) == [raised |-> e, result |-> "pending", message |-> ""]
    IN
    IF count_only_
    THEN IF ~t.first.exists \/ ~t.second.exists THEN returns("False", "table is missing")
         ELSE IF cf \in {"first", "second"} THEN raises("OperationalError")
         ELSE IF n1 # n2
              THEN IF cf = "message" THEN raises("OperationalError")
                   ELSE returns("False", "counts are different")
         ELSE IF n1 = 0 THEN returns("None", "tables are empty")
         ELSE returns("True", "Counts are the same")
    ELSE returns("pending", "")

\* diff_table_data_head without `if first_table_count == 0`: equal counts
\* are a Match, zero or not.
diff_table_data_head_NoEmptyCheck(t, count_only_, cf) ==
    LET n1 == Cardinality(t.first.rows)
        n2 == Cardinality(t.second.rows)
        returns(r, m) == [raised |-> "none", result |-> r, message |-> m]
        raises(e) == [raised |-> e, result |-> "pending", message |-> ""]
    IN
    IF count_only_
    THEN IF ~t.first.exists \/ ~t.second.exists THEN returns("False", "table is missing")
         ELSE IF cf \in {"first", "second"} THEN raises("OperationalError")
         ELSE IF n1 # n2
              THEN IF cf = "message" THEN raises("OperationalError")
                   ELSE returns("False", "counts are different")
         ELSE returns("True", "Counts are the same")
    ELSE IF t.pks = <<>> THEN returns("None", "no primary key(s) on this table.")
    ELSE returns("pending", "")

\* diff_table_data up to the paging loop: the count-only path and the
\* primary-key lookup.  result "pending" enters the loop.
diff_table_data_head(t, count_only_, cf) ==
    LET n1 == Cardinality(t.first.rows)
        n2 == Cardinality(t.second.rows)
        returns(r, m) == [raised |-> "none", result |-> r, message |-> m]
        raises(e) == [raised |-> e, result |-> "pending", message |-> ""]
    IN
    IF count_only_
    THEN IF ~t.first.exists \/ ~t.second.exists THEN returns("False", "table is missing")
         ELSE IF cf \in {"first", "second"} THEN raises("OperationalError")
         ELSE IF n1 # n2
              THEN IF cf = "message" THEN raises("OperationalError")
                   ELSE returns("False", "counts are different")
         ELSE IF n1 = 0 THEN returns("None", "tables are empty")
         ELSE returns("True", "Counts are the same")
    ELSE IF t.pks = <<>> THEN returns("None", "no primary key(s) on this table.")
    ELSE returns("pending", "")

\* offsets = {pk: None for pk in pks}
InitialOffsets(pks) == [k \in Range(pks) \cup {"has_offset"} |-> IF k = "has_offset" THEN FALSE ELSE NULL]

\* position += self.chunk_size
Advance(position_, chunk_size_) == Min(position_ + chunk_size_, MaxPosition)

\* page_round where the second statement is executed with the parameters
\* as they were before has_offset was assigned.
page_round_StaleSecond(t, chunk_size_, position_, offsets_, f1, f2) ==
    LET params == [offsets_ EXCEPT !["has_offset"] = position_ > 0]
        r1 == retry([faults |-> f1, natural |-> Natural(t.first)])
        r2 == retry([faults |-> f2, natural |-> Natural(t.second)])
        first == SQL_TEMPLATE_HASH(t.first.rows, t.pks, chunk_size_, params)
        second == SQL_TEMPLATE_HASH(t.second.rows, t.pks, chunk_size_, offsets_)
        out(e, r, m, last, p, o, fr, sr) ==
            [raised |-> e, result |-> r, message |-> m, lastRetry |-> last,
             position |-> p, offsets |-> o, firstresult |-> fr, secondresult |-> sr]
    IN
    IF r1.raised # "none"
    THEN out(r1.raised, "pending", "", r1, position_, params, NoResult, NoResult)
    ELSE IF r2.raised # "none"
    THEN out(r2.raised, "pending", "", r2, position_, params, first, NoResult)
    ELSE IF first.rowcount # second.rowcount
    THEN out("none", "False", "row count mismatch", r2, position_, params, first, second)
    ELSE IF first.hash # second.hash
    THEN out("none", "False", "data hash are different", r2, position_, params, first, second)
    ELSE IF first.pks # second.pks
    THEN out("none", "False", "data pks are different", r2, position_, params, first, second)
    ELSE out("none", "pending", "", r2, Advance(position_, chunk_size_),
             [k \in DOMAIN params |->
                 IF k = "has_offset" THEN params[k]
                 ELSE first.pks[CHOOSE i \in 1..Len(t.pks) : t.pks[i] = k]],
             first, second)

\* One iteration of `while not done`: the two page queries, the three
\* comparisons, the cursor update.  result "pending" goes round again.
page_round(t, chunk_size_, position_, offsets_, f1, f2) ==
    LET params == [offsets_ EXCEPT !["has_offset"] = position_ > 0]
        r1 == retry([faults |-> f1, natural |-> Natural(t.first)])
        r2 == retry([faults |-> f2, natural |-> Natural(t.second)])
        first == SQL_TEMPLATE_HASH(t.first.rows, t.pks, chunk_size_, params)
        second == SQL_TEMPLATE_HASH(t.second.rows, t.pks, chunk_size_, params)
        out(e, r, m, last, p, o, fr, sr) ==
            [raised |-> e, result |-> r, message |-> m, lastRetry |-> last,
             position |-> p, offsets |-> o, firstresult |-> fr, secondresult |-> sr]
    IN
    IF r1.raised # "none"
    THEN out(r1.raised, "pending", "", r1, position_, params, NoResult, NoResult)
    ELSE IF r2.raised # "none"
    THEN out(r2.raised, "pending", "", r2, position_, params, first, NoResult)
    ELSE IF first.rowcount # second.rowcount
    THEN out("none", "False", "row count mismatch", r2, position_, params, first, second)
    ELSE IF first.hash # second.hash
    THEN out("none", "False", "data hash are different", r2, position_, params, first, second)
    ELSE IF first.pks # second.pks
    THEN out("none", "False", "data pks are different", r2, position_, params, first, second)
    ELSE out("none", "pending", "", r2, Advance(position_, chunk_size_),
             [k \in DOMAIN params |->
                 IF k = "has_offset" THEN params[k]
                 ELSE first.pks[CHOOSE i \in 1..Len(t.pks) : t.pks[i] = k]],
             first, second)

\* CompareSequences with the two orderings taken for each other.
CompareSequencesSwapped(firstvalue, secondvalue) ==
    IF firstvalue > secondvalue
    THEN [result |-> "None", message |-> "first sequence is less than the second"]
    ELSE IF firstvalue < secondvalue
    THEN [result |-> "False", message |-> "first sequence is greater than the second"]
    ELSE [result |-> "True", message |-> "sequences are identical"]

\* The three-way comparison that ends diff_sequence.
CompareSequences(firstvalue, secondvalue) ==
    IF firstvalue < secondvalue
    THEN [result |-> "None", message |-> "first sequence is less than the second"]
    ELSE IF firstvalue > secondvalue
    THEN [result |-> "False", message |-> "first sequence is greater than the second"]
    ELSE [result |-> "True", message |-> "sequences are identical"]

\* diff_sequence on a sequence with values sv; f1 and f2 are the transient
\* failures of the two SELECT last_value statements.
diff_sequence(sv, f1, f2) ==
    LET r1 == retry([faults |-> f1, natural |-> "none"])
        r2 == retry([faults |-> f2,
                     natural |-> IF sv.second = NULL THEN "ProgrammingError" ELSE "none"])
        e == IF r1.raised # "none" THEN r1.raised ELSE r2.raised
        last == IF r1.raised # "none" THEN r1 ELSE r2
        c == CompareSequences(sv.first, sv.second)
    IN
    IF e = "none"
    THEN [raised |-> "none", result |-> c.result, message |-> c.message,
          rollback |-> FALSE, lastRetry |-> last]
    ELSE IF IsInstance(e, "ProgrammingError")
    THEN [raised |-> "none", result |-> "False",
          message |-> "sequence doesnt exist in second database.",
          rollback |-> TRUE, lastRetry |-> last]
    ELSE [raised |-> e, result |-> "pending", message |-> "",
          rollback |-> FALSE, lastRetry |-> last]

\* create_aggregate_functions: CREATE AGGREGATE raises when the aggregate
\* exists; the statement runs on the first session, then on the second, and
\* both sessions commit.
create_aggregate_functions(agg) ==
    IF agg.first # "absent" THEN [raised |-> "ProgrammingError", aggregate |-> agg]
    ELSE IF agg.second # "absent"
    THEN [raised |-> "ProgrammingError", aggregate |-> [agg EXCEPT !.first = "pending"]]
    ELSE [raised |-> "none", aggregate |-> [first |-> "committed", second |-> "committed"]]

\* ------------------------------------------------------------- the reporter
Event(kind, via, entity, label, verdict, message_) ==
    [kind |-> kind, via |-> via, entity |-> entity, label |-> label,
     verdict |-> verdict, message |-> message_]

\* StatusUpdate.__init__: the attributes of the new object and what it shows.
StatusUpdate_init(isatty_, entity, label) ==
    IF isatty_
    THEN [self |-> [spinner |-> "Halo"],
          event |-> Event("start", "spinner.start", entity, label, "pending", "")]
    ELSE [self |-> <<>>,
          event |-> Event("start", "print", entity, label, "pending", "")]

\* StatusUpdate.complete: reading self.spinner raises AttributeError when
\* __init__ did not set it.
StatusUpdate_complete(self, success, entity, message_) ==
    IF "spinner" \notin DOMAIN self
    THEN [raised |-> "AttributeError", event |-> Event("none", "", entity, <<0, 0>>, success, message_)]
    ELSE IF self.spinner # ""
    THEN [raised |-> "none",
          event |-> Event("complete",
                          IF success = "True" THEN "spinner.succeed"
                          ELSE IF success = "False" THEN "spinner.fail"
                          ELSE "spinner.warn",
                          entity, <<0, 0>>, success, message_)]
    ELSE [raised |-> "none",
          event |-> Event("complete",
                          IF success = "True" THEN "print success"
                          ELSE IF success = "False" THEN "print failed"
                          ELSE "print warning",
                          entity, <<0, 0>>, success, message_)]

\* Tally with `if not result` for `if result is False`: None counts too.
TallyFalsy(failures_, result_) == IF result_ # "True" THEN failures_ + 1 ELSE failures_

\* if result is False: failures += 1
Tally(failures_, result_) == IF result_ = "False" THEN failures_ + 1 ELSE failures_

\* if failures > 0: return 1; return 0
ExitCode(failures_) == IF failures_ > 0 THEN 1 ELSE 0

\* ------------------------------------------------------------- state
VARIABLES
    isatty,         \* sys.stdout.isatty()
    count_only,     \* DBDiff.count_only
    chunk_size,     \* DBDiff.chunk_size
    aggregate,      \* public.last on each database: absent, pending, committed
    entry,          \* the entry point run: "sequences" or "tables"
    pc,             \* where the entry point is
    entities,       \* the sorted list `sequences` / `tables`
    idx,            \* the number of entities the for loop has finished
    failures,       \* the local `failures`
    ret,            \* the entry point's return value, NULL before it returns
    exception,      \* the exception that left the entry point, "none" if none
    events,         \* what the StatusUpdate objects have shown, in order
    verdicts,       \* the results the differs have returned, in order
    status_update,  \* the attributes of the current StatusUpdate object
    tbl,            \* the table being compared, on both databases
    seq,            \* the sequence being compared, on both databases
    done,           \* the local `done` of diff_table_data
    position,       \* the local `position`
    offsets,        \* the local `offsets`
    firstresult,    \* the last page of the first database
    secondresult,   \* the last page of the second database
    result,         \* the result of the last differ call, "pending" before
    message,        \* its message
    rollbacks,      \* the sessions diff_sequence last rolled back
    lastRetry       \* the last call of retry: its operation and outcome

vars ==
    <<isatty, count_only, chunk_size, aggregate, entry, pc, entities, idx,
      failures, ret, exception, events, verdicts, status_update, tbl, seq,
      done, position, offsets, firstresult, secondresult, result, message,
      rollbacks, lastRetry>>

config == <<isatty, count_only, chunk_size, entry>>
paging == <<done, position, offsets, firstresult, secondresult>>

Init ==
    /\ isatty \in BOOLEAN
    /\ count_only \in BOOLEAN
    /\ chunk_size \in 1..MaxChunk
    /\ aggregate \in {[first |-> "absent", second |-> "absent"],
                      [first |-> "absent", second |-> "committed"],
                      [first |-> "committed", second |-> "committed"]}
    /\ entry \in {"sequences", "tables"}
    /\ pc = "start"
    /\ entities = <<>>
    /\ idx = 0
    /\ failures = 0
    /\ ret = NULL - 1
    /\ exception = "none"
    /\ events = <<>>
    /\ verdicts = <<>>
    /\ status_update = <<>>
    /\ tbl = NoTable
    /\ seq = NoSeq
    /\ done = FALSE
    /\ position = 0
    /\ offsets = InitialOffsets(<<>>)
    /\ firstresult = NoResult
    /\ secondresult = NoResult
    /\ result = "pending"
    /\ message = ""
    /\ rollbacks = [first |-> FALSE, second |-> FALSE]
    /\ lastRetry = NoRetry

\* ------------------------------------------------------------- actions
\* The differ hands its result to the for loop, or its exception leaves the
\* entry point (neither loop catches anything).
DifferEnds(raised, result_, message_) ==
    /\ result' = result_
    /\ message' = message_
    /\ exception' = raised
    /\ pc' = IF raised # "none" THEN "raised" ELSE "complete"

\* diff_all_sequences, up to its for loop: list the sequences and sort them.
DiffAllSequences ==
    /\ pc = "start"
    /\ entry = "sequences"
    /\ \E listing \in Listings : entities' = sorted(listing)
    /\ failures' = 0
    /\ pc' = "seq_loop"
    /\ UNCHANGED <<config, aggregate, idx, ret, exception, events, verdicts,
                   status_update, tbl, seq, paging, result, message, rollbacks,
                   lastRetry>>

\* An iteration of the for loop of diff_all_sequences, up to the return of
\* diff_sequence.
SequenceIteration ==
    /\ pc = "seq_loop"
    /\ idx < Len(entities)
    /\ \E sv \in SeqInputs, f1 \in Faults, f2 \in Faults :
        LET sequence == entities[idx + 1]
            su == StatusUpdate_init(isatty, sequence,
                                    <<IndexPlus1(entities, sequence), Len(entities)>>)
            d == diff_sequence(sv, f1, f2)
        IN
        /\ seq' = sv
        /\ status_update' = su.self
        /\ events' = Append(events, su.event)
        /\ rollbacks' = [first |-> d.rollback, second |-> d.rollback]
        /\ lastRetry' = d.lastRetry
        /\ DifferEnds(d.raised, d.result, d.message)
    /\ UNCHANGED <<config, aggregate, entities, idx, failures, ret, verdicts, tbl,
                   paging>>

\* The end of diff_all_sequences.
SequencesReturn ==
    /\ pc = "seq_loop"
    /\ idx = Len(entities)
    /\ ret' = ExitCode(failures)
    /\ pc' = "returned"
    /\ UNCHANGED <<config, aggregate, entities, idx, failures, exception, events,
                   verdicts, status_update, tbl, seq, paging, result, message,
                   rollbacks, lastRetry>>

\* diff_all_table_data, up to its for loop: install the aggregate, list the
\* tables of the first database and sort them.
DiffAllTableData ==
    /\ pc = "start"
    /\ entry = "tables"
    /\ failures' = 0
    /\ LET a == create_aggregate_functions(aggregate) IN
        /\ aggregate' = a.aggregate
        /\ exception' = a.raised
        /\ IF a.raised # "none"
           THEN /\ pc' = "raised"
                /\ UNCHANGED entities
           ELSE /\ pc' = "table_loop"
                /\ \E listing \in Listings : entities' = sorted(listing)
    /\ UNCHANGED <<config, idx, ret, events, verdicts, status_update, tbl, seq,
                   paging, result, message, rollbacks, lastRetry>>

\* An iteration of the for loop of diff_all_table_data, up to the paging
\* loop of diff_table_data, or to its return when it returns before the loop.
TableIteration ==
    /\ pc = "table_loop"
    /\ idx < Len(entities)
    /\ \E t \in TableInputs, cf \in (IF count_only THEN CountFaults ELSE {"none"}) :
        LET table == entities[idx + 1]
            su == StatusUpdate_init(isatty, table,
                                    <<IndexPlus1(entities, table), Len(entities)>>)
            d == diff_table_data_head(t, count_only, cf)
        IN
        /\ tbl' = t
        /\ status_update' = su.self
        /\ events' = Append(events, su.event)
        /\ done' = FALSE
        /\ position' = 0
        /\ offsets' = InitialOffsets(IF count_only THEN <<>> ELSE t.pks)
        /\ IF d.raised = "none" /\ d.result = "pending"
           THEN /\ pc' = "paging"
                /\ UNCHANGED <<result, message, exception>>
           ELSE DifferEnds(d.raised, d.result, d.message)
    /\ UNCHANGED <<config, aggregate, entities, idx, failures, ret, verdicts, seq,
                   firstresult, secondresult, rollbacks, lastRetry>>

\* One test of `while not done` in diff_table_data and, when it passes, one
\* iteration of the loop.
PageRound ==
    /\ pc = "paging"
    /\ UNCHANGED done
    /\ IF done
       THEN /\ DifferEnds("none", "True", "data is identical.")
            /\ UNCHANGED <<position, offsets, firstresult, secondresult, lastRetry>>
       ELSE \E f1 \in Faults, f2 \in Faults :
            LET p == page_round(tbl, chunk_size, position, offsets, f1, f2) IN
            /\ position' = p.position
            /\ offsets' = p.offsets
            /\ firstresult' = p.firstresult
            /\ secondresult' = p.secondresult
            /\ lastRetry' = p.lastRetry
            /\ IF p.raised = "none" /\ p.result = "pending"
               THEN UNCHANGED <<pc, exception, result, message>>
               ELSE DifferEnds(p.raised, p.result, p.message)
    /\ UNCHANGED <<config, aggregate, entities, idx, failures, ret, events, verdicts,
                   status_update, tbl, seq, rollbacks>>

\* The rest of an iteration of either for loop: status_update.complete and
\* the failure count.  The differ's frame and the iteration's objects are
\* gone when the next iteration starts.
Complete ==
    /\ pc = "complete"
    /\ LET c == StatusUpdate_complete(status_update, result, entities[idx + 1], message) IN
        /\ verdicts' = Append(verdicts, result)
        /\ exception' = c.raised
        /\ IF c.raised # "none"
           THEN /\ pc' = "raised"
                /\ UNCHANGED <<events, failures, idx, status_update, tbl, seq, paging,
                               result, message, rollbacks, lastRetry>>
           ELSE /\ pc' = IF entry = "tables" THEN "table_loop" ELSE "seq_loop"
                /\ events' = Append(events, c.event)
                /\ failures' = Tally(failures, result)
                /\ idx' = idx + 1
                /\ status_update' = <<>>
                /\ tbl' = NoTable
                /\ seq' = NoSeq
                /\ done' = FALSE
                /\ position' = 0
                /\ offsets' = InitialOffsets(<<>>)
                /\ firstresult' = NoResult
                /\ secondresult' = NoResult
                /\ result' = "pending"
                /\ message' = ""
                /\ rollbacks' = [first |-> FALSE, second |-> FALSE]
                /\ lastRetry' = NoRetry
    /\ UNCHANGED <<config, aggregate, entities, ret>>

\* The end of diff_all_table_data.
TablesReturn ==
    /\ pc = "table_loop"
    /\ idx = Len(entities)
    /\ ret' = ExitCode(failures)
    /\ pc' = "returned"
    /\ UNCHANGED <<config, aggregate, entities, idx, failures, exception, events,
                   verdicts, status_update, tbl, seq, paging, result, message,
                   rollbacks, lastRetry>>

Next ==
    \/ DiffAllSequences
    \/ SequenceIteration
    \/ SequencesReturn
    \/ DiffAllTableData
    \/ TableIteration
    \/ PageRound
    \/ Complete
    \/ TablesReturn

Spec == Init /\ [][Next]_vars

\* ------------------------------------------------------------- properties
\* diff_table_data runs its content-hash path on the current table.
HashMode == entry = "tables" /\ ~count_only

\* diff_table_data has been called on the current table and the iteration
\* is not over.
InTableDiff == entry = "tables" /\ pc \in {"paging", "complete", "raised"}

\* The two databases hold the same rows for the current table.
Identical == tbl.second.exists /\ tbl.first.rows = tbl.second.rows

\* The number of Mismatch results in a list of results.
RECURSIVE Mismatches(_)
Mismatches(vs) ==
    IF vs = <<>> THEN 0
    ELSE (IF Head(vs) = "False" THEN 1 ELSE 0) + Mismatches(Tail(vs))

\* The page the next round of the paging loop fetches from the first
\* database: the page query with the cursor as it is now.
NextPage ==
    SQL_TEMPLATE_HASH(tbl.first.rows, tbl.pks, chunk_size,
                      [offsets EXCEPT !["has_offset"] = position > 0]).t

\* Row r lies beyond the cursor in primary-key order.
Ahead(r) == order_expr(offsets, r, tbl.pks)

\* C1: in content-hash mode, the diff of a non-empty table with a primary
\* key whose rows are the same on both databases terminates with Match.
\* Stated so that a finite run refutes it: the scan never stands before a
\* round that fetches again the page it has just compared (that round
\* leaves the cursor where it is, so every later round repeats it and no
\* page ever returns zero rows).
C1_IdenticalTableTerminates ==
    (HashMode /\ pc = "paging" /\ position > 0 /\ tbl.first.rows # {} /\ Identical)
        => NextPage # firstresult.t

\* C2: in content-hash mode, when the rows of a table with a primary key
\* differ between the databases, the diff returns Mismatch: no row is
\* skipped by the pagination predicate.  Stated so that a finite run
\* refutes it: while the scan of such a table is still going on, a row of
\* one of the databases lies beyond the cursor (the scan has not passed
\* every row without returning Mismatch).
C2_DifferenceIsReported ==
    (   HashMode /\ pc = "paging" /\ position > 0 /\ tbl.second.exists
     /\ tbl.first.rows # tbl.second.rows)
        => \E r \in tbl.first.rows \cup tbl.second.rows : Ahead(r)

\* C3: a table with no rows on either database yields Inconclusive and
\* never Match, in count-only mode and in content-hash mode: when
\* diff_table_data has returned, it has returned Inconclusive, and the
\* paging loop does not go on after the first page has come back empty.
C3_EmptyTableInconclusive ==
    (   InTableDiff /\ tbl.second.exists /\ tbl.first.rows = {}
     /\ tbl.second.rows = {} /\ exception \in {"none", "AttributeError"})
        => /\ result # "True"
           /\ (pc = "paging") => (position = 0)
           /\ (pc # "paging") => (result = "None")

\* C4: an operation that raises a transient error on every invocation is
\* invoked max_tries + 1 = 4 times by retry, with sleeps of 1, 2 and 4
\* seconds, and the transient error then propagates.
C4_RetryBound ==
    (lastRetry.calls > 0 /\ lastRetry.fn.faults = MaxFaults)
        => /\ lastRetry.calls = max_tries + 1
           /\ lastRetry.sleeps = <<1, 2, 4>>
           /\ lastRetry.raised = "OperationalError"

\* C5: an operation that raises an exception that is not transient is
\* invoked once by retry, which does not sleep, and the same exception
\* propagates.
C5_NonTransientPropagates ==
    (lastRetry.calls > 0 /\ lastRetry.fn.faults = 0 /\ lastRetry.fn.natural # "none")
        => /\ lastRetry.calls = 1
           /\ lastRetry.sleeps = <<>>
           /\ lastRetry.raised = lastRetry.fn.natural

\* C6: when the sequence does not exist on the second database (and the
\* statement on the first succeeded), diff_sequence returns Mismatch with
\* the message that it does not exist there, after a rollback on both
\* sessions; no exception leaves diff_sequence.
C6_MissingSequenceIsMismatch ==
    (   entry = "sequences" /\ pc \in {"complete", "raised"} /\ seq.second = NULL
     /\ lastRetry.fn.faults = 0 /\ lastRetry.fn.natural = "ProgrammingError")
        => /\ result = "False"
           /\ message = "sequence doesnt exist in second database."
           /\ rollbacks.first /\ rollbacks.second

\* C7: when the table does not exist on one of the databases,
\* diff_table_data returns Mismatch, "table is missing", in both modes: it
\* does not reach the paging loop and no exception leaves it.
C7_MissingTableIsMismatch ==
    (InTableDiff /\ ~tbl.second.exists)
        => (result = "False" /\ message = "table is missing")

\* C8: when both values have been fetched, diff_sequence returns Match iff
\* they are equal, Inconclusive iff the first is less than the second and
\* Mismatch iff the first is greater, and nothing else.
C8_SequenceOrdering ==
    (entry = "sequences" /\ result # "pending" /\ seq.second # NULL)
        => /\ result \in {"True", "None", "False"}
           /\ (result = "True") <=> (seq.first = seq.second)
           /\ (result = "None") <=> (seq.first < seq.second)
           /\ (result = "False") <=> (seq.first > seq.second)

C8_Witness ==
    /\ entry = "sequences" /\ pc = "complete" /\ seq.second # NULL
    /\ result = "None" /\ seq.first < seq.second

\* C9: in both entry points, while no exception has left the entry point,
\* failures is the number of Mismatch results seen so far (Match and
\* Inconclusive do not count), and the return value is 1 if there was a
\* Mismatch and 0 if there was none.
C9_FailureCount ==
    (pc # "raised")
        => /\ failures = Mismatches(verdicts)
           /\ (pc = "returned") => (ret = IF Mismatches(verdicts) > 0 THEN 1 ELSE 0)

C9_Witness ==
    /\ pc = "returned" /\ ret = 1 /\ Len(verdicts) >= 2
    /\ "False" \in Range(verdicts) /\ Range(verdicts) # {"False"}

\* Entity i has been started once and then completed once with the result
\* of its differ, at positions 2i-1 and 2i of the reporter's log.
Reported(i) ==
    /\ 2 * i <= Len(events)
    /\ events[2 * i - 1].kind = "start" /\ events[2 * i - 1].entity = entities[i]
    /\ events[2 * i].kind = "complete" /\ events[2 * i].entity = entities[i]
    /\ i <= Len(verdicts) /\ events[2 * i].verdict = verdicts[i]

\* C10: entities are processed in sorted order, and once the differs have
\* returned their verdicts (no exception left a differ) and the entry point
\* has ended, every listed entity has exactly one start followed by one
\* completion with its verdict: no verdict stops the run.
C10_EveryEntityReported ==
    (pc = "returned" \/ (pc = "raised" /\ result # "pending"))
        => /\ \A i \in 1..(Len(entities) - 1) : StrLess(entities[i], entities[i + 1])
           /\ Len(events) = 2 * Len(entities)
           /\ \A i \in 1..Len(entities) : Reported(i)

\* No page query has been issued for the current table: retry has not been
\* called, no page has come back and the paging loop has not been entered.
NoPageQuery ==
    /\ pc # "paging"
    /\ lastRetry.calls = 0
    /\ firstresult = NoResult /\ secondresult = NoResult

\* C11 as stated: a table without primary-key columns always returns
\* Inconclusive from diff_table_data (whenever it returns), and no page
\* query is issued for it.
C11_NoPkAlwaysInconclusive ==
    (InTableDiff /\ tbl # NoTable /\ tbl.pks = <<>> /\ result # "pending")
        => (result = "None" /\ NoPageQuery)

\* C11, amended: in content-hash mode a table without primary-key columns
\* always returns Inconclusive from diff_table_data, and in neither mode is
\* a page query issued for such a table.
C11_NoPkInconclusiveInHashMode ==
    (InTableDiff /\ tbl # NoTable /\ tbl.pks = <<>>)
        => /\ NoPageQuery
           /\ ~count_only => (result = "None" /\ exception \in {"none", "AttributeError"})

C11_Witness ==
    /\ HashMode /\ pc = "complete" /\ tbl.pks = <<>> /\ tbl.first.rows # {}
    /\ result = "None" /\ message = "no primary key(s) on this table."

\* C12: installing the aggregate is idempotent: when diff_all_table_data
\* has passed the installation on databases that hold the aggregate, it
\* has not raised, the aggregate is present and committed on both, and the
\* tables are scanned.
C12_AggregateInstallIdempotent ==
    (   entry = "tables" /\ pc # "start"
     /\ aggregate.first = "committed" /\ aggregate.second = "committed")
        => ~(pc = "raised" /\ events = <<>> /\ exception = "ProgrammingError")

\* C13: in count-only mode, for a table present on both databases, when
\* diff_table_data returns, it returns Mismatch iff the row counts differ,
\* Inconclusive iff both are zero and Match iff they are equal and not
\* zero, whatever the primary key, and no page query has been issued.
C13_CountOnlyVerdict ==
    (   entry = "tables" /\ count_only /\ InTableDiff /\ tbl.second.exists
     /\ result # "pending")
        => LET n1 == Cardinality(tbl.first.rows)
               n2 == Cardinality(tbl.second.rows)
           IN /\ (result = "False") <=> (n1 # n2)
              /\ (result = "None") <=> (n1 = 0 /\ n2 = 0)
              /\ (result = "True") <=> (n1 = n2 /\ n1 # 0)
              /\ NoPageQuery

C13_Witness ==
    /\ entry = "tables" /\ count_only /\ pc = "complete" /\ tbl.second.exists
    /\ tbl.pks = <<>> /\ tbl.first.rows # {} /\ result = "True"

\* C14: every page query selects at most chunk_size rows, all strictly
\* greater than the cursor in primary-key order, so that no row belongs to
\* two pages: the page the next round fetches lies wholly beyond the
\* cursor and shares no row with the page just compared.
C14_PagesBeyondCursor ==
    (HashMode /\ pc = "paging" /\ position > 0)
        => /\ Len(NextPage) <= chunk_size
           /\ \A i \in 1..Len(NextPage) : Ahead(NextPage[i])
           /\ Range(NextPage) \cap Range(firstresult.t) = {}

\* ceil(n / c)
Ceil(n, c) == (n + c - 1) \div c

\* C15: for a table with N rows, the same on both databases, and chunk
\* size C, the content-hash diff issues ceil(N/C) paging rounds and one
\* terminating empty round.  Stated so that a finite run refutes it: the
\* loop does not stand before a further round when ceil(N/C) + 1 rounds
\* have been completed (position is C times the rounds completed).
C15_RoundCount ==
    (HashMode /\ pc = "paging" /\ tbl.pks # <<>> /\ Identical)
        => position < chunk_size * (Ceil(Cardinality(tbl.first.rows), chunk_size) + 1)

\* The 1-based rank, in primary-key order, of the first row at which the
\* two databases differ.
FirstDivergentRank ==
    LET s1 == OrderBy(tbl.first.rows, tbl.pks)
        s2 == OrderBy(tbl.second.rows, tbl.pks)
        same(i) == i <= Len(s1) /\ i <= Len(s2) /\ s1[i] = s2[i]
    IN CHOOSE r \in 1..(Len(s1) + Len(s2) + 1) :
           ~same(r) /\ \A j \in 1..(r - 1) : same(j)

\* C16: when the first divergent row has rank r, the content-hash diff
\* returns Mismatch with position chunk_size * floor((r-1)/chunk_size):
\* a Mismatch found by the page comparisons carries that position, and the
\* scan does not go on beyond the round that holds the first divergence.
C16_MismatchPosition ==
    (   HashMode /\ InTableDiff /\ tbl.pks # <<>> /\ tbl.second.exists
     /\ tbl.first.rows # tbl.second.rows)
        => LET at == chunk_size * ((FirstDivergentRank - 1) \div chunk_size) IN
           /\ (pc = "paging") => (position <= at)
           /\ (pc = "complete" /\ result = "False") => (position = at)

\* C17: across the successive pages of one table scan, a component of the
\* cursor that is set never moves to a smaller value and never reverts to
\* unset.
C17_MonotonicCursor ==
    [][(HashMode /\ pc = "paging")
          => \A k \in Range(tbl.pks) :
                 (offsets[k] # NULL) => (offsets'[k] # NULL /\ offsets'[k] >= offsets[k])]_vars

\* The cursor has moved on from where the first page left it.
C17_Witness ==
    /\ HashMode /\ pc = "paging" /\ tbl.pks # <<>> /\ position >= 2 * chunk_size
    /\ LET page1 == SQL_TEMPLATE_HASH(tbl.first.rows, tbl.pks, chunk_size,
                                      InitialOffsets(tbl.pks))
       IN \E i \in 1..Len(tbl.pks) :
              page1.pks[i] # NULL /\ offsets[tbl.pks[i]] > page1.pks[i]

\* C18: every data query goes through retry, so that one transient failure
\* of a query, followed by success, does not raise: a statement run by
\* retry that fails once is invoked twice and retry returns, and in
\* count-only mode no transient error leaves diff_table_data.
C18_SingleTransientHarmless ==
    /\ (lastRetry.calls > 0 /\ lastRetry.fn.faults = 1 /\ lastRetry.fn.natural = "none")
           => (lastRetry.raised = "none" /\ lastRetry.calls = 2)
    /\ (entry = "tables" /\ count_only) => (exception # "OperationalError")

\* How StatusUpdate is to show a start and a completion with a verdict.
Rendering(kind, verdict) ==
    IF kind = "start" THEN (IF isatty THEN "spinner.start" ELSE "print")
    ELSE IF verdict = "True" THEN (IF isatty THEN "spinner.succeed" ELSE "print success")
    ELSE IF verdict = "False" THEN (IF isatty THEN "spinner.fail" ELSE "print failed")
    ELSE (IF isatty THEN "spinner.warn" ELSE "print warning")

\* C19: the reporter works in both renderings: the title is printed or the
\* spinner started, a completion prints one line prefixed success, failed
\* or warning (or finishes the spinner with succeed, fail or warn) for
\* Match, Mismatch or Inconclusive, and complete does not raise.
C19_ReporterBothRenderings ==
    /\ exception # "AttributeError"
    /\ \A i \in 1..Len(events) : events[i].via = Rendering(events[i].kind, events[i].verdict)

\* C20: in content-hash mode, when the two databases hold the same rows of
\* a table with a primary key, the two results of every round agree in row
\* count, hash and last primary key, and diff_table_data does not return
\* Mismatch.
C20_NoFalseMismatch ==
    (HashMode /\ InTableDiff /\ tbl.pks # <<>> /\ Identical)
        => /\ result # "False"
           /\ (firstresult # NoResult /\ secondresult # NoResult)
                  => /\ firstresult.rowcount = secondresult.rowcount
                     /\ firstresult.hash = secondresult.hash
                     /\ firstresult.pks = secondresult.pks

\* Two rounds on an identical table, the second on a page that begins at
\* the cursor.
C20_Witness ==
    /\ HashMode /\ pc = "paging" /\ tbl.pks # <<>> /\ Identical
    /\ position >= 2 * chunk_size /\ Len(firstresult.t) = 2
    /\ secondresult = firstresult /\ offsets[tbl.pks[1]] > 1

====
